---------------------------- MODULE Spec2Model ----------------------------
(***************************************************************************)
(* The edge search worker (script/src/main.ts): one handleSearch per       *)
(* request, all requests of the isolate sharing one WebAssembly instance   *)
(* and its linear memory.  A request runs synchronously up to its first    *)
(* await; every KV.get is a suspension point at which other requests run.  *)
(***************************************************************************)
EXTENDS Integers, Sequences, FiniteSets, TLC

(***************************************************************************)
(* Bounds of the model.                                                    *)
(***************************************************************************)
\* Requests the model lets arrive, one after or during another.
MaxRequests == 2

\* Operations applied in a row to one MemoryWalker.
MaxWalkerOps == 2

(***************************************************************************)
(* Build-time configuration (declared in main.ts, set by the build).       *)
(***************************************************************************)
MAX_QUERY_TERMS == 2
PAGE_SIZE == 2

\* The handleSearch activations that can be in flight together: a request
\* arrives while at most one other is suspended at an await.
Reqs == {1, 2}

(***************************************************************************)
(* Strings are tuples of one-character strings, so that the regular        *)
(* expression and the percent decoding can be computed position by         *)
(* position.                                                               *)
(***************************************************************************)
Digits == <<"0", "1", "2", "3", "4", "5", "6", "7", "8", "9">>

IsDigit(ch) == \E i \in 1..10 : Digits[i] = ch

DigitVal(ch) == (CHOOSE i \in 1..10 : Digits[i] = ch) - 1

HexLetters == <<"a", "b", "c", "d", "e", "f">>

IsHex(ch) == IsDigit(ch) \/ \E i \in 1..6 : HexLetters[i] = ch

HexVal(ch) ==
    IF IsDigit(ch) THEN DigitVal(ch)
    ELSE 9 + (CHOOSE i \in 1..6 : HexLetters[i] = ch)

\* The ASCII characters the model's inputs can decode to, by code point.
CharOfCode(code) ==
    CASE code = 37 -> "%"
      [] code = 38 -> "&"
      [] code = 97 -> "a"
      [] code = 98 -> "b"
      [] OTHER -> "?"

\* decodeURIComponent: a '%' must be followed by two hex digits; a byte of
\* 0x80 or more must start a well-formed UTF-8 sequence, which no input of
\* the model forms, so it is a URIError as well.
RECURSIVE DecodeFrom(_, _)
DecodeFrom(s, i) ==
    IF i > Len(s) THEN [ok |-> TRUE, val |-> <<>>]
    ELSE IF s[i] # "%" THEN
        LET rest == DecodeFrom(s, i + 1)
        IN  [ok |-> rest.ok, val |-> <<s[i]>> \o rest.val]
    ELSE IF i + 2 > Len(s) \/ ~IsHex(s[i + 1]) \/ ~IsHex(s[i + 2])
        THEN [ok |-> FALSE, val |-> <<>>]
    ELSE LET code == 16 * HexVal(s[i + 1]) + HexVal(s[i + 2])
             rest == DecodeFrom(s, i + 3)
         IN  IF code >= 128 THEN [ok |-> FALSE, val |-> <<>>]
             ELSE [ok |-> rest.ok, val |-> <<CharOfCode(code)>> \o rest.val]

decodeURIComponent(s) == DecodeFrom(s, 1)

\* The longest prefix of s[i..] free of '&': what the greedy ([^&]+) captures.
RECURSIVE UpToAmp(_, _)
UpToAmp(s, i) ==
    IF i > Len(s) \/ s[i] = "&" THEN <<>>
    ELSE <<s[i]>> \o UpToAmp(s, i + 1)

\* /^([012])_([^&]+)(?:&|$)/.exec(value): the captured groups, or no match.
MatchT(value) ==
    IF /\ Len(value) >= 3
       /\ value[1] \in {"0", "1", "2"}
       /\ value[2] = "_"
       /\ value[3] # "&"
    THEN [matched |-> TRUE, mode |-> DigitVal(value[1]), term |-> UpToAmp(value, 3)]
    ELSE [matched |-> FALSE, mode |-> 0, term |-> <<>>]

EmptyModes == <<<<>>, <<>>, <<>>>>

\* parseQuery: kind "ok" with the three lists, "undefined" at the first value
\* that does not match, "throw" when decodeURIComponent raises URIError first.
RECURSIVE ParseFrom(_, _, _)
ParseFrom(termsRaw, i, modeTerms) ==
    IF i > Len(termsRaw) THEN [kind |-> "ok", modes |-> modeTerms]
    ELSE LET m == MatchT(termsRaw[i])
             d == decodeURIComponent(m.term)
         IN  IF ~m.matched THEN [kind |-> "undefined", modes |-> EmptyModes]
             ELSE IF ~d.ok THEN [kind |-> "throw", modes |-> EmptyModes]
             ELSE ParseFrom(termsRaw, i + 1,
                     [modeTerms EXCEPT ![m.mode + 1] = Append(@, d.val)])

parseQuery(termsRaw) == ParseFrom(termsRaw, 1, EmptyModes)


\* Math.max(0, Number.parseInt(c || '', 10) || 0): an optional sign, then the
\* longest run of decimal digits; NaN (no digit) counts as 0.
RECURSIVE DigitsValue(_, _, _)
DigitsValue(s, i, acc) ==
    IF i > Len(s) \/ ~IsDigit(s[i]) THEN acc
    ELSE DigitsValue(s, i + 1, 10 * acc + DigitVal(s[i]))

parseInt(s) ==
    LET signed == Len(s) >= 1 /\ s[1] \in {"-", "+"}
        first  == IF signed THEN 2 ELSE 1
        mag    == DigitsValue(s, first, 0)
    IN  IF first > Len(s) \/ ~IsDigit(s[first]) THEN [nan |-> TRUE, val |-> 0]
        ELSE [nan |-> FALSE, val |-> IF signed /\ s[1] = "-" THEN 0 - mag ELSE mag]

Max(a, b) == IF a >= b THEN a ELSE b

Min(a, b) == IF a <= b THEN a ELSE b

ParseContinuation(c) ==
    LET p == parseInt(c) IN Max(0, IF p.nan THEN 0 ELSE p.val)

(***************************************************************************)
(* Numbers beyond 2^31 - 1 are held as two halves, value = hi * 2^16 + lo  *)
(* with lo < 2^16, so that a 32-bit store and load can be computed: a      *)
(* number is below 2^32 exactly when hi < 2^16.                            *)
(***************************************************************************)
Half == 256 * 256

Wide(hi, lo) == [hi |-> hi, lo |-> lo]

WideZero == Wide(0, 0)

\* 10 * w + d
WideTimesTenPlus(w, d) ==
    LET l == 10 * w.lo + d
    IN  Wide(10 * w.hi + l \div Half, l % Half)

RECURSIVE DigitsWide(_, _, _)
DigitsWide(s, i, acc) ==
    IF i > Len(s) \/ ~IsDigit(s[i]) THEN acc
    ELSE DigitsWide(s, i + 1, WideTimesTenPlus(acc, DigitVal(s[i])))

\* Math.max(0, Number.parseInt(c || '', 10) || 0) on numbers of any size the
\* model sends (at most ten digits, exact in a double): a negative number and
\* NaN give 0.
ParseContinuationWide(c) ==
    LET signed == Len(c) >= 1 /\ c[1] \in {"-", "+"}
        first  == IF signed THEN 2 ELSE 1
    IN  IF first > Len(c) \/ ~IsDigit(c[first]) THEN WideZero
        ELSE IF signed /\ c[1] = "-" THEN WideZero
        ELSE DigitsWide(c, first, WideZero)

\* DataView.setUint32(pos, val, true): val modulo 2^32, low byte first.
Uint32Bytes(w) ==
    LET hi == w.hi % Half
    IN  <<w.lo % 256, w.lo \div 256, hi % 256, hi \div 256>>

\* DataView.getUint32(pos, true) of four bytes.
Uint32Of(b) == Wide(b[3] + 256 * b[4], b[1] + 256 * b[2])

\* The same four bytes read as int32_t: negative from 2^31 on.
Int32Negative(b) == b[4] >= 128

(***************************************************************************)
(* MemoryWalker: a buffer of bytes and the position `next`.  An operation  *)
(* gives the walker after it, whether it threw, the bytes it returned and  *)
(* the number of bytes it was to transfer.                                 *)
(***************************************************************************)
Walker(buffer, next) == [buffer |-> buffer, next |-> next]

\* buffer[from .. to), clamped to the buffer as ArrayBuffer.slice and
\* Uint8Array.slice clamp.
Slice(buffer, from, to) ==
    SubSeq(buffer, Min(from, Len(buffer)) + 1, Min(to, Len(buffer)))

Outcome(w, threw, bytes, wanted) ==
    [walker |-> w, threw |-> threw, bytes |-> bytes, wanted |-> wanted]

jumpTo(w, ptr) == Outcome(Walker(w.buffer, ptr), FALSE, <<>>, 0)

forkAndJump(w, ptr) == Outcome(Walker(w.buffer, ptr), FALSE, <<>>, 0)

skip(w, bytes) == Outcome(Walker(w.buffer, w.next + bytes), FALSE, <<>>, 0)

\* A DataView getter of `width` bytes at `next`: RangeError unless the bytes
\* are all inside the buffer; `next` moves only after the getter returned.
GetFixed(w, width) ==
    IF w.next + width > Len(w.buffer)
    THEN Outcome(w, TRUE, <<>>, width)
    ELSE Outcome(Walker(w.buffer, w.next + width), FALSE,
                 Slice(w.buffer, w.next, w.next + width), width)

\* getUint8(this.next++): the position has moved when the getter throws.
readUInt8(w) ==
    IF w.next + 1 > Len(w.buffer)
    THEN Outcome(Walker(w.buffer, w.next + 1), TRUE, <<>>, 1)
    ELSE Outcome(Walker(w.buffer, w.next + 1), FALSE,
                 Slice(w.buffer, w.next, w.next + 1), 1)

readBoolean(w) == readUInt8(w)

readInt32LE(w) == GetFixed(w, 4)

readInt32BE(w) == GetFixed(w, 4)

readUInt32LE(w) == GetFixed(w, 4)

readUInt32BE(w) == GetFixed(w, 4)

readInt64LE(w) == GetFixed(w, 8)

readUInt64LE(w) == GetFixed(w, 8)

readDoubleLE(w) == GetFixed(w, 8)

\* this.buffer.slice(this.next, this.next += len): never throws; the slice is
\* cut at the end of the buffer.
readSlice(w, len) ==
    Outcome(Walker(w.buffer, w.next + len), FALSE,
            Slice(w.buffer, w.next, w.next + len), len)

\* The first position from `end` on whose byte is 0 or that is outside the
\* buffer (uint8Array[end] is undefined there).
RECURSIVE StringEnd(_, _)
StringEnd(buffer, end) ==
    IF end >= Len(buffer) \/ buffer[end + 1] = 0 THEN end
    ELSE StringEnd(buffer, end + 1)

\* readNullTerminatedString: never throws; the bytes before `end` are
\* returned and the position set past the terminator, found or not.
readNullTerminatedString(w) ==
    LET end == StringEnd(w.buffer, w.next)
    IN  Outcome(Walker(w.buffer, end + 1), FALSE,
                Slice(w.buffer, w.next, end), Max(0, end - w.next))

\* new MemoryWalker(this.buffer, this.readUInt32LE()): the pointer read is
\* checked by the getter, the position it names is not.  Pointers of the
\* model are below 2^16.
readAndDereferencePointer(w) ==
    LET r == readUInt32LE(w)
    IN  IF r.threw THEN r
        ELSE Outcome(Walker(w.buffer, Uint32Of(r.bytes).lo), FALSE, r.bytes, 4)

\* The buffer with src stored from position pos on.
Store(buffer, pos, src) ==
    [k \in 1..Len(buffer) |->
        IF k > pos /\ k <= pos + Len(src) THEN src[k - pos] ELSE buffer[k]]

\* dataView.setUint32(this.next, val, true): RangeError unless inside.
writeUInt32LE(w, val) ==
    IF w.next + 4 > Len(w.buffer)
    THEN Outcome(w, TRUE, <<>>, 4)
    ELSE Outcome(Walker(Store(w.buffer, w.next, Uint32Bytes(val)), w.next + 4),
                 FALSE, Uint32Bytes(val), 4)

\* MemoryWalker.writeAll(src): uint8Array.set(src, this.next) throws
\* RangeError when src does not fit.
walkerWriteAll(w, src) ==
    IF w.next + Len(src) > Len(w.buffer)
    THEN Outcome(w, TRUE, <<>>, Len(src))
    ELSE Outcome(Walker(Store(w.buffer, w.next, src), w.next + Len(src)),
                 FALSE, src, Len(src))

(***************************************************************************)
(* formatFromVarargs: the format string is read through the pointer at the *)
(* walker, each conversion the regular expression finds is decoded from    *)
(* the walker by the parser of its length and type.                        *)
(***************************************************************************)
\* The characters of the format strings of the model and their codes
\* (TextDecoder on ASCII bytes).
AsciiChars ==
    << "%", "d", "i", "u", "f", "F", "e", "E", "g", "G", "x", "X",
       "o", "s", "c", "p", "a", "A", "h", "l", "L", "z", "j", "t",
       "I", "q", "0", "1", "2", "3", "4", "5", "6", ".", "*", "-",
       "+", " ", "'", "#", "n", ":" >>

AsciiCodes ==
    << 37, 100, 105, 117, 102, 70, 101, 69, 103, 71, 120, 88,
       111, 115, 99, 112, 97, 65, 104, 108, 76, 122, 106, 116,
       73, 113, 48, 49, 50, 51, 52, 53, 54, 46, 42, 45,
       43, 32, 39, 35, 110, 58 >>

CodeOf(ch) == AsciiCodes[CHOOSE k \in 1..Len(AsciiChars) : AsciiChars[k] = ch]

CharOf(code) == AsciiChars[CHOOSE k \in 1..Len(AsciiCodes) : AsciiCodes[k] = code]

Encode(str) == [k \in 1..Len(str) |-> CodeOf(str[k])]

Decode(bytes) == [k \in 1..Len(bytes) |-> CharOf(bytes[k])]

FlagChars == {"-", "+", " ", "0", "'", "#"}

TypeChars ==
    {"%", "d", "i", "u", "f", "F", "e", "E", "g", "G", "x", "X", "o", "s", "c",
     "p", "a", "A"}

\* (?:hh|h|l|ll|L|z|j|t|I|I32|I64|q), in the order the alternatives are tried.
LengthForms ==
    << <<"h", "h">>, <<"h">>, <<"l">>, <<"l", "l">>, <<"L">>, <<"z">>, <<"j">>,
       <<"t">>, <<"I">>, <<"I", "3", "2">>, <<"I", "6", "4">>, <<"q">> >>

HasPrefix(str, i, pre) ==
    /\ i + Len(pre) - 1 <= Len(str)
    /\ \A k \in 1..Len(pre) : str[i + k - 1] = pre[k]

\* The first position from i on whose character is not in the set.
RECURSIVE SkipWhile(_, _, _)
SkipWhile(str, i, set) ==
    IF i > Len(str) \/ str[i] \notin set THEN i ELSE SkipWhile(str, i + 1, set)

DigitChars == {Digits[k] : k \in 1..10}

IsTypeAt(str, i) == i <= Len(str) /\ str[i] \in TypeChars

NoMatch ==
    [matched |-> FALSE, flags |-> <<>>, width |-> <<>>, precision |-> <<>>,
     length |-> <<>>, type |-> "", end |-> 0]

\* The match of the regular expression at a '%' at position i: greedy flags,
\* width and precision, then the first length alternative (or none) after
\* which a type character stands.
MatchConversion(str, i) ==
    LET f == SkipWhile(str, i + 1, FlagChars)
        w == IF f <= Len(str) /\ str[f] = "*" THEN f + 1
             ELSE SkipWhile(str, f, DigitChars)
        d == IF w + 1 <= Len(str) /\ str[w] = "." /\ str[w + 1] = "*" THEN w + 2
             ELSE IF w + 1 <= Len(str) /\ str[w] = "." /\ IsDigit(str[w + 1])
                  THEN SkipWhile(str, w + 1, DigitChars)
             ELSE w
        fits == {k \in 1..Len(LengthForms) :
                    /\ HasPrefix(str, d, LengthForms[k])
                    /\ IsTypeAt(str, d + Len(LengthForms[k]))}
        len  == IF fits # {}
                THEN LengthForms[CHOOSE k \in fits : \A m \in fits : k <= m]
                ELSE <<>>
    IN  IF fits = {} /\ ~IsTypeAt(str, d) THEN NoMatch
        ELSE [matched |-> TRUE,
              flags |-> SubSeq(str, i + 1, f - 1),
              width |-> SubSeq(str, f, w - 1),
              precision |-> SubSeq(str, w, d - 1),
              length |-> len,
              type |-> str[d + Len(len)],
              end |-> d + Len(len) + 1]

ShortLengths == { <<"h", "h">>, <<"h">>, <<"l">>, <<"z">>, <<"t">>, <<>> }

LongLengths == { <<"l", "l">>, <<"j">> }

\* SPECIFIER_PARSERS, in order: the lengths, the types and the read of each.
SPECIFIER_PARSERS ==
    << [length |-> ShortLengths, type |-> {"d", "i", "c"}, parse |-> "readInt32LE"],
       [length |-> ShortLengths, type |-> {"u", "x", "X", "o", "p"},
        parse |-> "readUInt32LE"],
       [length |-> LongLengths, type |-> {"d", "i"}, parse |-> "readInt64LE"],
       [length |-> LongLengths, type |-> {"u", "x", "X", "o", "p"},
        parse |-> "readUInt64LE"],
       [length |-> { <<"L">>, <<>> },
        type |-> {"f", "F", "e", "E", "g", "G", "a", "A"}, parse |-> "readDoubleLE"],
       [length |-> {}, type |-> {"s"}, parse |-> "string"],
       [length |-> {}, type |-> {"%"}, parse |-> "percent"] >>

\* SPECIFIER_PARSERS.find(p => p.length.has(length) && p.type.has(type)):
\* the index of the parser, 0 when there is none.
FindParser(length, type) ==
    LET ok == {k \in 1..Len(SPECIFIER_PARSERS) :
                  /\ length \in SPECIFIER_PARSERS[k].length
                  /\ type \in SPECIFIER_PARSERS[k].type}
    IN  IF ok = {} THEN 0 ELSE CHOOSE k \in ok : \A m \in ok : k <= m

\* parser.parse(mem): the walker after the read, whether it threw, and the
\* raw value.
Parse(name, mem) ==
    CASE name = "readInt32LE" -> readInt32LE(mem)
      [] name = "readUInt32LE" -> readUInt32LE(mem)
      [] name = "readInt64LE" -> readInt64LE(mem)
      [] name = "readUInt64LE" -> readUInt64LE(mem)
      [] name = "readDoubleLE" -> readDoubleLE(mem)
      [] name = "string" ->
           LET p == readAndDereferencePointer(mem)
           IN  IF p.threw THEN p
               ELSE Outcome(Walker(mem.buffer, mem.next + 4), FALSE,
                            readNullTerminatedString(p.walker).bytes, 4)
      [] name = "percent" -> Outcome(mem, FALSE, <<>>, 0)

FormatResult(kind, mem, text, reads) ==
    [kind |-> kind, next |-> mem.next, text |-> text, reads |-> reads]

\* String.replace with the callback: the text before position i is done;
\* `text` holds the literal characters and, for each conversion, its type and
\* raw value (what SPECIFIER_FORMATTERS[type] is given); `reads` the bytes
\* each conversion took from the walker.  A throw ends the call with no text.
RECURSIVE ReplaceFrom(_, _, _, _, _)
ReplaceFrom(str, i, mem, text, reads) ==
    IF i > Len(str) THEN FormatResult("ok", mem, text, reads)
    ELSE IF str[i] # "%" THEN
        ReplaceFrom(str, i + 1, mem, Append(text, str[i]), reads)
    ELSE LET m == MatchConversion(str, i)
             k == FindParser(m.length, m.type)
             v == Parse(SPECIFIER_PARSERS[k].parse, mem)
         IN  IF ~m.matched THEN
                 ReplaceFrom(str, i + 1, mem, Append(text, str[i]), reads)
             ELSE IF m.flags # <<>> \/ m.width # <<>> \/ m.precision # <<>> THEN
                 FormatResult("Error", mem, <<>>, reads)
             ELSE IF k = 0 THEN FormatResult("SyntaxError", mem, <<>>, reads)
             ELSE IF v.threw THEN FormatResult("RangeError", mem, <<>>, reads)
             ELSE ReplaceFrom(str, m.end, v.walker,
                      Append(text, [type |-> m.type, raw |-> v.bytes]),
                      Append(reads, v.walker.next - mem.next))

\* formatFromVarargs(mem).
formatFromVarargs(mem) ==
    LET p == readAndDereferencePointer(mem)
        args == Walker(mem.buffer, mem.next + 4)
    IN  IF p.threw THEN FormatResult("RangeError", mem, <<>>, <<>>)
        ELSE ReplaceFrom(Decode(readNullTerminatedString(p.walker).bytes), 1,
                         args, <<>>, <<>>)

(***************************************************************************)
(* The index the worker serves: the two manifests, the chunks held by the  *)
(* blob store, and the default snapshot.                                   *)
(***************************************************************************)
AllDocs == 1..5

NoBitmap == [some |-> FALSE, len |-> 0, docs |-> {}]

Bitmap(docs) == [some |-> TRUE, len |-> 4 * Cardinality(docs), docs |-> docs]

NoChunk == [found |-> FALSE, chunkId |-> 0, midPos |-> 0]

\* Term manifest: chunk 1 covers "a".."b", chunk 2 covers "c".."m".
TermManifest(term) ==
    IF term \in {<<"a">>, <<"b">>} THEN [found |-> TRUE, chunkId |-> 1, midPos |-> 8]
    ELSE IF term \in {<<"c">>, <<"m">>} THEN [found |-> TRUE, chunkId |-> 2, midPos |-> 0]
    ELSE NoChunk

\* The entries of a term chunk: "m" is covered by chunk 2 and not in it.
TermChunkEntry(chunkId, term) ==
    CASE chunkId = 1 /\ term = <<"a">> -> Bitmap({1, 2, 3})
      [] chunkId = 1 /\ term = <<"b">> -> Bitmap({2})
      [] chunkId = 2 /\ term = <<"c">> -> Bitmap({3, 4, 5})
      [] OTHER -> NoBitmap

TermChunkEntries(chunkId) ==
    {TermChunkEntry(chunkId, t) : t \in {<<"a">>, <<"b">>, <<"c">>}} \ {NoBitmap}

\* Document manifest: chunk 1 covers ids 1..2, chunk 2 covers 3..4.
DocManifest(doc) ==
    IF doc \in {1, 2} THEN [found |-> TRUE, chunkId |-> 1, midPos |-> 16]
    ELSE IF doc \in {3, 4} THEN [found |-> TRUE, chunkId |-> 2, midPos |-> 0]
    ELSE NoChunk

DocJson(doc) == "{\"ID\":" \o ToString(doc) \o "}"

NoDoc == [some |-> FALSE, json |-> ""]

\* The entries of a document chunk: id 4 is covered by chunk 2 and not in it.
DocChunkEntry(chunkId, doc) ==
    IF (chunkId = 1 /\ doc \in {1, 2}) \/ (chunkId = 2 /\ doc = 3)
    THEN [some |-> TRUE, json |-> DocJson(doc)]
    ELSE NoDoc

\* byteLength of the chunk KV.get returns for `${prefix}${chunkId}`.
ChunkByteLength(prefix, chunkId) == IF prefix = "terms_" THEN 16 * chunkId ELSE 24

DefaultSnapshot == "[" \o DocJson(1) \o "," \o DocJson(2) \o "]"

(***************************************************************************)
(* The module's linear memory.  The arena is a bump allocator: `next` is   *)
(* the first free address, `regions` the byte ranges written since, each   *)
(* with the value written and the request it was written for.  A write     *)
(* destroys every region it overlaps.                                      *)
(***************************************************************************)
NoData == [kind |-> "none", key |-> <<>>, id |-> 0, docs |-> {}, words |-> <<>>]

KeyData(term) == [NoData EXCEPT !.kind = "key", !.key = term]

ChunkData(prefix, chunkId) == [NoData EXCEPT !.kind = prefix, !.id = chunkId]

BitmapData(docs) == [NoData EXCEPT !.kind = "bitmap", !.docs = docs]

InputData(words) == [NoData EXCEPT !.kind = "input", !.words = words]

EmptyArena == [next |-> 0, regions |-> {}]

\* queryRunner.reset(): the whole arena is reclaimed; its bytes stay as they are.
reset(ar) == [ar EXCEPT !.next = 0]

\* queryRunner.malloc(size): the allocation and the arena after it.
malloc(ar, size) == [ptr |-> ar.next, arena |-> [ar EXCEPT !.next = @ + size]]

Overlaps(g, ptr, len) == len > 0 /\ g.ptr < ptr + len /\ ptr < g.ptr + g.len

\* queryRunnerMemory.forkAndJump(ptr).writeAll(src), on behalf of request r.
writeAll(ar, ptr, len, data, r) ==
    [ar EXCEPT !.regions =
        {g \in @ : ~Overlaps(g, ptr, len)}
            \cup {[ptr |-> ptr, len |-> len, data |-> data, owner |-> r]}]

Intact(ar, ptr, len) == \E g \in ar.regions : g.ptr = ptr /\ g.len = len

\* The bytes at [ptr, ptr + len): the value last written exactly there, or
\* NoData when they have been overwritten since (arbitrary bytes).
ReadAt(ar, ptr, len) ==
    IF Intact(ar, ptr, len)
    THEN (CHOOSE g \in ar.regions : g.ptr = ptr /\ g.len = len).data
    ELSE NoData

\* queryRunner.find_chunk_containing_term(ptr, len): the key is read from memory.
find_chunk_containing_term(ar, ptr, len) ==
    LET d == ReadAt(ar, ptr, len)
    IN  IF d.kind = "key" THEN TermManifest(d.key) ELSE NoChunk

find_chunk_containing_doc(doc) == DocManifest(doc)

\* queryRunner.search_bst_chunk_for_term(chunkPtr, midPos, termPtr, termLen):
\* the entries the search can return.  With the key bytes intact, the entry of
\* that key or none; with the key bytes overwritten by something that is no
\* key, whatever those bytes happen to spell: any entry of the chunk, or none.
search_bst_chunk_for_term(ar, chunkPtr, chunkLen, termPtr, termLen) ==
    LET c == ReadAt(ar, chunkPtr, chunkLen)
        k == ReadAt(ar, termPtr, termLen)
    IN  IF c.kind # "terms_" THEN {NoBitmap}
        ELSE IF k.kind = "key" THEN {TermChunkEntry(c.id, k.key)}
        ELSE TermChunkEntries(c.id) \cup {NoBitmap}

\* queryRunner.search_bst_chunk_for_doc(chunkPtr, midPos, doc).
search_bst_chunk_for_doc(ar, chunkPtr, chunkLen, doc) ==
    LET c == ReadAt(ar, chunkPtr, chunkLen)
    IN  IF c.kind # "doc_" THEN NoDoc ELSE DocChunkEntry(c.id, doc)

(***************************************************************************)
(* QueryInput, the evaluator and QueryResult.                              *)
(***************************************************************************)
\* DataView.setUint32 and the module's int32_t read of the cursor.  Every
\* number the model writes is in 0 .. 2^31 - 1 (cursors of at most two digits,
\* byte lengths, arena addresses), where both leave the value as it is.
Uint32(x) == x

Int32(w) == w

\* The resolved bitmaps of one mode, as buildIndexQuery walks them: each is
\* copied into a fresh allocation and contributes (byteLength, ptr); the list
\* ends with a zero word.
RECURSIVE WriteMode(_, _, _, _, _)
WriteMode(ar, r, bitmaps, i, words) ==
    IF i > Len(bitmaps) THEN [arena |-> ar, words |-> Append(words, 0)]
    ELSE LET bm == bitmaps[i]
             m  == malloc(ar, bm.len)
             a2 == writeAll(m.arena, m.ptr, bm.len, BitmapData(bm.docs), r)
         IN  WriteMode(a2, r, bitmaps, i + 1,
                 words \o <<Uint32(bm.len), Uint32(m.ptr)>>)

\* buildIndexQuery(firstRank, modeTermBitmaps): the 32-bit words of the input
\* (the buffer is 4 bytes a word) and the arena after the bitmap copies.
buildIndexQuery(ar, r, firstRank, modeTermBitmaps) ==
    LET w0 == <<Uint32(firstRank)>>
        m1 == WriteMode(ar, r, modeTermBitmaps[1], 1, w0)
        m2 == WriteMode(m1.arena, r, modeTermBitmaps[2], 1, m1.words)
        m3 == WriteMode(m2.arena, r, modeTermBitmaps[3], 1, m2.words)
    IN  [arena |-> m3.arena, words |-> m3.words]

bitmapCount(modeTermBitmaps) ==
    Len(modeTermBitmaps[1]) + Len(modeTermBitmaps[2]) + Len(modeTermBitmaps[3])

\* The evaluator's reading of one list: (length, ref) pairs up to the first
\* zero length word.
RECURSIVE ReadMode(_, _, _, _)
ReadMode(ar, words, i, acc) ==
    IF i > Len(words) \/ words[i] = 0 THEN [sets |-> acc, next |-> i + 1]
    ELSE ReadMode(ar, words, i + 2,
             Append(acc, ReadAt(ar, words[i + 1], words[i]).docs))

RECURSIVE IntersectAll(_, _)
IntersectAll(sets, i) ==
    IF i > Len(sets) THEN AllDocs ELSE sets[i] \cap IntersectAll(sets, i + 1)

UnionAll(sets) == UNION {sets[i] : i \in 1..Len(sets)}

\* Ascending document id.
RECURSIVE Ascending(_)
Ascending(S) ==
    IF S = {} THEN <<>>
    ELSE LET lo == CHOOSE x \in S : \A y \in S : x <= y
         IN  <<lo>> \o Ascending(S \ {lo})

\* nextCursor on the wire: cursor + PAGE_SIZE while that rank exists, else -1.
NextCursor(cursor, total) ==
    IF cursor + PAGE_SIZE < total THEN cursor + PAGE_SIZE ELSE -1

\* queryRunner.index_query(inputPtr): (R \cap C) \ X in ascending order, the
\* page at the cursor, the total and the next cursor.
index_query(ar, inputPtr, inputLen) ==
    LET words  == ReadAt(ar, inputPtr, inputLen).words
        cursor == Int32(words[1])
        req0   == ReadMode(ar, words, 2, <<>>)
        con0   == ReadMode(ar, words, req0.next, <<>>)
        exc0   == ReadMode(ar, words, con0.next, <<>>)
        R      == IntersectAll(req0.sets, 1)
        C      == IF con0.sets = <<>> THEN AllDocs ELSE UnionAll(con0.sets)
        X      == UnionAll(exc0.sets)
        all    == Ascending((R \cap C) \ X)
        page   == SubSeq(all, cursor + 1, Min(cursor + PAGE_SIZE, Len(all)))
    IN  [continuation |-> NextCursor(cursor, Len(all)),
         total        |-> Len(all),
         count        |-> Len(page),
         documents    |-> page]

\* The three lists of bitmaps index_query reads in the input at inputPtr, in
\* the order Require, Contain, Exclude.
ReadQueryInput(ar, inputPtr, inputLen) ==
    LET words == ReadAt(ar, inputPtr, inputLen).words
        req0  == ReadMode(ar, words, 2, <<>>)
        con0  == ReadMode(ar, words, req0.next, <<>>)
        exc0  == ReadMode(ar, words, con0.next, <<>>)
    IN  <<req0.sets, con0.sets, exc0.sets>>

NoResult == [continuation |-> -1, total |-> 0, documents |-> <<>>]

\* readResult: continuation -1 is null (kept as -1 here), then `count` ids.
readResult(result) ==
    [continuation |-> result.continuation,
     total        |-> result.total,
     documents    |-> SubSeq(result.documents, 1, result.count)]

(***************************************************************************)
(* Responses.                                                              *)
(***************************************************************************)
NoResponse ==
    [status |-> 0, chunks |-> <<>>, results |-> <<>>, continuation |-> -1, total |-> 0]

\* responseError(error, status): JSON.stringify({error}).
responseError(error, status) ==
    [NoResponse EXCEPT !.status = status,
                       !.chunks = <<"{\"error\":\"" \o error \o "\"}">>]

\* responseRawJson(json), with what a client reads in it.
responseRawJson(json, results) ==
    [NoResponse EXCEPT !.status = 200, !.chunks = <<json>>, !.results = results]

DefaultDocs == <<DocJson(1), DocJson(2)>>

\* responseDefaultResults, once KV.get('default', 'text') has answered.
responseDefaultResults ==
    responseRawJson("{\"results\":" \o DefaultSnapshot
                        \o ",\"continuation\":null,\"total\":0}", DefaultDocs)

responseNoResults ==
    responseRawJson("{\"results\":[],\"continuation\":null,\"total\":0}", <<>>)

ContinuationJson(c) == IF c = -1 THEN "null" ELSE ToString(c)

jsonResPrefix(total, continuation) ==
    "{\"total\":" \o ToString(total) \o ",\"continuation\":"
        \o ContinuationJson(continuation) \o ",\"results\":["

jsonResSuffix == "]}"

COMMA == ","

\* The writer.write calls of handleSearch, in order.
RECURSIVE WriteDocuments(_, _)
WriteDocuments(documents, i) ==
    IF i > Len(documents) THEN <<>>
    ELSE (IF i # 1 THEN <<COMMA>> ELSE <<>>) \o <<documents[i]>>
            \o WriteDocuments(documents, i + 1)

(***************************************************************************)
(* The state.                                                              *)
(***************************************************************************)
VARIABLES
    req,              \* per request: handleSearch's position and locals, and
                      \* what it did so far (kvGets, evalCalls, inputBytes,
                      \* arrived: the order its document fetches completed)
    arena,            \* the one module instance's memory, shared by all requests
    client,           \* a client paging through one query
    served,           \* the number of requests that have arrived
    MAX_QUERY_BYTES,  \* the byte budget the build configured
    probe,            \* a MemoryWalker taken alone: its buffer and position,
                      \* and the outcome of the last operation applied to it
    diag,             \* a diagnostic call of the module: the parts of its
                      \* format string and what formatFromVarargs made of it
    fetch             \* one call of the scraper's fetchDdo: its position, its
                      \* loop counter, the responses so far and its outcome

\* The state beside the worker's.
codec == <<probe, diag, fetch>>

\* The worker's state.
worker == <<req, arena, client, served, MAX_QUERY_BYTES>>

vars == <<req, arena, client, served, MAX_QUERY_BYTES, probe, diag, fetch>>

IdleReq ==
    [pc           |-> "idle",
     termsRaw     |-> <<>>,
     c            |-> <<>>,
     query        |-> EmptyModes,
     continuation |-> 0,
     termFetch    |-> <<>>,
     docFetch     |-> <<>>,
     arrived      |-> <<>>,
     result       |-> NoResult,
     response     |-> NoResponse,
     error        |-> "",
     kvGets       |-> 0,
     evalCalls    |-> 0,
     inputBytes   |-> 0,
     input        |-> EmptyModes]

InFlight(r) == req[r].pc \in {"awaitBitmaps", "awaitDefault", "awaitDocs"}

\* Memory that no suspended findInChunks still points at is never read again:
\* only the key bytes of the term fetches awaiting KV.get are kept.
Referenced(rq, g) ==
    \E r \in Reqs : \E i \in 1..Len(rq[r].termFetch) :
        /\ rq[r].termFetch[i].st = "pending"
        /\ rq[r].termFetch[i].keyPtr = g.ptr
        /\ rq[r].termFetch[i].keyLen = g.len

Forget(ar, rq) == [ar EXCEPT !.regions = {g \in @ : Referenced(rq, g)}]

(***************************************************************************)
(* findInChunks, in its two halves: up to `await KV.get`, and after it.    *)
(* Each call records what the manifest lookup said (found), the entry the  *)
(* chunk search returned (entry) and what the call returned (res).         *)
(***************************************************************************)
\* Mutant of EntryPayload: an empty payload returned for an entry not found.
EntryPayloadOrEmpty(e) ==
    [some |-> TRUE, len |-> e.len, docs |-> e.docs]

\* The end of findInChunks: undefined when the search returned 0, else the
\* slice of entryLen bytes at the entry's payload pointer.
EntryPayload(e) ==
    IF ~e.some THEN NoBitmap
    ELSE [some |-> TRUE, len |-> e.len, docs |-> e.docs]

\* findInChunks(term, 'terms_') up to the await: the key is copied into the
\* arena and the manifest consulted; a manifest miss returns undefined at once.
findInChunksTerm(ar, r, mode, term) ==
    LET len == Len(term)
        m   == malloc(ar, len)
        a2  == writeAll(m.arena, m.ptr, len, KeyData(term), r)
        ref == find_chunk_containing_term(a2, m.ptr, len)
    IN  [arena |-> a2,
         call  |-> [mode |-> mode, term |-> term, keyPtr |-> m.ptr, keyLen |-> len,
                    chunkId |-> ref.chunkId, midPos |-> ref.midPos,
                    found |-> ref.found, entry |-> NoBitmap,
                    st |-> IF ref.found THEN "pending" ELSE "done",
                    gets |-> IF ref.found THEN 1 ELSE 0,
                    res |-> NoBitmap]]

\* The terms in the order findSerialisedTermBitmaps calls findInChunks:
\* Require, then Contain, then Exclude, each in list order.
ModeItems(query, k) == [i \in 1..Len(query[k]) |-> [mode |-> k - 1, term |-> query[k][i]]]

AllTerms(query) == ModeItems(query, 1) \o ModeItems(query, 2) \o ModeItems(query, 3)

RECURSIVE StartTermFetches(_, _, _, _, _)
StartTermFetches(ar, r, items, i, calls) ==
    IF i > Len(items) THEN [arena |-> ar, calls |-> calls]
    ELSE LET f == findInChunksTerm(ar, r, items[i].mode, items[i].term)
         IN  StartTermFetches(f.arena, r, items, i + 1, Append(calls, f.call))

\* findInChunks(docId, 'doc_') up to the await.
findInChunksDoc(doc) ==
    LET ref == find_chunk_containing_doc(doc)
    IN  [doc |-> doc, chunkId |-> ref.chunkId, midPos |-> ref.midPos,
         found |-> ref.found, entry |-> NoDoc,
         st |-> IF ref.found THEN "pending" ELSE "done",
         gets |-> IF ref.found THEN 1 ELSE 0,
         res |-> [settled |-> ~ref.found, some |-> FALSE, json |-> ""]]

\* Mutant of FetchRejected: the chunk asked for a second time before giving up.
FetchRetried(call) ==
    IF call.gets < 2 THEN [call EXCEPT !.gets = @ + 1]
    ELSE [call EXCEPT !.st = "failed"]

\* `await KV.get(...)` rejects inside findInChunks: nothing catches it, the
\* call is over.
FetchRejected(call) == [call EXCEPT !.st = "failed"]

Pending(calls) == {i \in 1..Len(calls) : calls[i].st = "pending"}

\* Mutant of AllReturned: going on as soon as one call has returned.
SomeReturned(calls) ==
    calls = <<>> \/ \E i \in 1..Len(calls) : calls[i].st = "done"

\* Promise.all: fulfilled once every call has returned.
AllReturned(calls) == \A i \in 1..Len(calls) : calls[i].st = "done"

\* Mutant of Settle: values collected in the order the fetches complete.
SettleInArrivalOrder(calls, j, v) ==
    LET k == CHOOSE n \in 1..Len(calls) :
                 /\ ~calls[n].res.settled
                 /\ \A q \in 1..(n - 1) : calls[q].res.settled
    IN  [[calls EXCEPT ![j].st = "done"]
            EXCEPT ![k].res = [settled |-> TRUE, some |-> v.some, json |-> v.json]]

\* Promise.all keeps each value at the position of its promise.
Settle(calls, j, v) ==
    [calls EXCEPT ![j].st = "done",
                  ![j].res = [settled |-> TRUE, some |-> v.some, json |-> v.json]]

termCount(query) == Len(query[1]) + Len(query[2]) + Len(query[3])

\* Mutant of TooManyTerms: the limit itself rejected.
TooManyTermsOffByOne(query) == termCount(query) >= MAX_QUERY_TERMS

TooManyTerms(query) == termCount(query) > MAX_QUERY_TERMS

\* The bitmaps of one mode, in call order.
RECURSIVE ModeBitmaps(_, _, _)
ModeBitmaps(calls, mode, i) ==
    IF i > Len(calls) THEN <<>>
    ELSE (IF calls[i].mode = mode THEN <<calls[i].res>> ELSE <<>>)
            \o ModeBitmaps(calls, mode, i + 1)

\* Mutant of modeTermBitmaps: the Contain and Exclude lists exchanged.
modeTermBitmapsExchanged(calls) ==
    <<ModeBitmaps(calls, 0, 1), ModeBitmaps(calls, 2, 1), ModeBitmaps(calls, 1, 1)>>

modeTermBitmaps(calls) ==
    <<ModeBitmaps(calls, 0, 1), ModeBitmaps(calls, 1, 1), ModeBitmaps(calls, 2, 1)>>

\* Mutant of RequireMissing: every instead of some.
RequireMissingAll(bitmaps) ==
    bitmaps # <<>> /\ \A i \in 1..Len(bitmaps) : ~bitmaps[i].some

\* modeTermBitmaps[0].some(bm => !bm)
RequireMissing(bitmaps) == \E i \in 1..Len(bitmaps) : ~bitmaps[i].some

IsResolved(bm) == bm.some

\* Mutant of FilterResolved: the unresolved entries kept.
KeepAll(bitmaps) == bitmaps

\* modeTermBitmaps[k].filter(bm => bm)
FilterResolved(bitmaps) == SelectSeq(bitmaps, IsResolved)

\* modeTermBitmaps.every(modeTerms => !modeTerms.length)
AllEmpty(mtb) == \A k \in 1..3 : Len(mtb[k]) = 0

IsSome(d) == d.some

\* (await Promise.all(...)).filter(exists): the documents found, in array order.
Documents(calls) ==
    LET found == SelectSeq([j \in 1..Len(calls) |-> calls[j].res], IsSome)
    IN  [j \in 1..Len(found) |-> found[j].json]

(***************************************************************************)
(* The requests the model sends.                                           *)
(***************************************************************************)
T(mode, term) == <<mode, "_">> \o term

Queries ==
    { <<>>,
      <<T("0", <<"a">>)>>,
      <<T("0", <<"a">>), T("2", <<"b">>)>>,
      <<T("0", <<"z">>)>>,
      <<T("0", <<"a">>), T("0", <<"m">>)>>,
      <<T("2", <<"z">>)>>,
      <<T("1", <<"c">>), T("1", <<"b">>)>>,
      <<T("1", <<"m">>), T("0", <<"b">>)>>,
      <<T("9", <<"a">>)>>,
      <<T("0", <<"a">>), T("0", <<>>)>>,
      <<T("0", <<"%">>), T("9", <<"a">>)>>,
      <<T("0", <<"a">>), T("1", <<"c">>), T("2", <<"b">>)>>,
      <<T("1", <<"a", "&", "b">>)>> }

Cursors == { <<>>, <<"2">> }

\* The queries sent with a cursor as well: those that reach the evaluator, the
\* only reader of the cursor.
PagedQueries ==
    { <<T("0", <<"a">>)>>,
      <<T("0", <<"a">>), T("2", <<"b">>)>>,
      <<T("1", <<"c">>), T("1", <<"b">>)>> }

\* The requests of the model: the t values and the c value of each.
Searches ==
    {[t |-> q, c |-> <<>>] : q \in Queries}
        \cup {[t |-> q, c |-> c] : q \in PagedQueries, c \in Cursors}

\* The queries the paging client asks: every document they match is stored.
ClientQueries ==
    { <<T("0", <<"a">>)>>,
      <<T("0", <<"a">>), T("2", <<"b">>)>> }

RECURSIVE CharsOfNat(_)
CharsOfNat(n) ==
    IF n < 10 THEN <<Digits[n + 1]>>
    ELSE CharsOfNat(n \div 10) \o <<Digits[(n % 10) + 1]>>

NewClient ==
    [state |-> "new", termsRaw |-> <<>>, active |-> 0, cursor |-> 0,
     pages |-> 0, docs |-> <<>>, total |-> 0]

(***************************************************************************)
(* handleSearch.                                                           *)
(***************************************************************************)
\* handleSearch(url) up to its first await: reset, parseQuery, the cursor,
\* the term-count check, and the synchronous half of every findInChunks.
handleSearchStart(ar, r, termsRaw, c) ==
    LET ar0    == reset(ar)
        parsed == parseQuery(termsRaw)
        base   == [IdleReq EXCEPT !.termsRaw = termsRaw, !.c = c]
        tf     == StartTermFetches(ar0, r, AllTerms(parsed.modes), 1, <<>>)
    IN  CASE parsed.kind = "throw" ->
               [arena |-> ar0,
                req   |-> [base EXCEPT !.pc = "threw", !.error = "URIError"]]
          [] parsed.kind = "undefined" ->
               [arena |-> ar0,
                req   |-> [base EXCEPT !.pc = "done",
                                       !.response = responseError("Malformed query", 400)]]
          [] parsed.kind = "ok" /\ TooManyTerms(parsed.modes) ->
               [arena |-> ar0,
                req   |-> [base EXCEPT !.pc = "done",
                                       !.query = parsed.modes,
                                       !.continuation = ParseContinuation(c),
                                       !.response = responseError("Too many terms", 413)]]
          [] OTHER ->
               [arena |-> tf.arena,
                req   |-> [base EXCEPT !.pc = "awaitBitmaps",
                                       !.query = parsed.modes,
                                       !.continuation = ParseContinuation(c),
                                       !.termFetch = tf.calls,
                                       !.kvGets = Cardinality(Pending(tf.calls))]]

\* The activation r is over: it has answered or thrown, the calls it left
\* behind have returned, and its answer has been read.
Over(r) ==
    /\ req[r].pc \in {"idle", "done", "threw"}
    /\ Pending(req[r].termFetch) = {}
    /\ Pending(req[r].docFetch) = {}
    /\ client.active # r

Arrive(r, termsRaw, c) ==
    /\ served < MaxRequests
    /\ Over(r)
    /\ \A q \in Reqs : q < r => ~Over(q)
    /\ served' = served + 1
    /\ LET s == handleSearchStart(arena, r, termsRaw, c)
       IN  /\ req' = [req EXCEPT ![r] = s.req]
           /\ arena' = Forget(s.arena, req')
    /\ UNCHANGED <<MAX_QUERY_BYTES, codec>>

\* A request of some other caller.
Request(r, termsRaw, c) ==
    /\ Arrive(r, termsRaw, c)
    /\ UNCHANGED client

\* findInChunks(term, 'terms_') after the await: the chunk is copied into the
\* arena and searched for the key bytes at cKey.ptr.
TermFetched(r, i) ==
    /\ i \in Pending(req[r].termFetch)
    /\ LET f   == req[r].termFetch[i]
           len == ChunkByteLength("terms_", f.chunkId)
           m   == malloc(arena, len)
           a2  == writeAll(m.arena, m.ptr, len, ChunkData("terms_", f.chunkId), r)
       IN  \E e \in search_bst_chunk_for_term(a2, m.ptr, len, f.keyPtr, f.keyLen) :
               /\ req' = [req EXCEPT ![r].termFetch[i].st = "done",
                                     ![r].termFetch[i].entry = e,
                                     ![r].termFetch[i].res = EntryPayload(e)]
               /\ arena' = Forget(a2, req')
    /\ UNCHANGED <<client, served, MAX_QUERY_BYTES, codec>>

\* KV.get rejects: findInChunks rejects, Promise.all rejects, handleSearch throws.
TermFetchFailed(r, i) ==
    /\ i \in Pending(req[r].termFetch)
    /\ req' = [req EXCEPT ![r].termFetch[i] = FetchRejected(@),
                          ![r].pc = IF @ = "awaitBitmaps" THEN "threw" ELSE @,
                          ![r].error = IF req[r].pc = "awaitBitmaps" THEN "KV" ELSE @]
    /\ arena' = Forget(arena, req')
    /\ UNCHANGED <<client, served, MAX_QUERY_BYTES, codec>>

\* executePostingsListQuery(queryData): the input is copied into the buffer of
\* index_query_malloc (MAX_QUERY_BYTES long) and index_query is called.
executePostingsListQuery(ar, r, words) ==
    LET m   == malloc(ar, MAX_QUERY_BYTES)
        len == 4 * Len(words)
        a2  == writeAll(m.arena, m.ptr, len, InputData(words), r)
    IN  [arena |-> a2, inputBytes |-> len,
         input |-> ReadQueryInput(a2, m.ptr, len),
         result |-> readResult(index_query(a2, m.ptr, len))]

\* Mutant of BodyBeforeDocuments: the prefix written before the documents
\* are awaited.
BodyPrefixWritten(prefix) == <<prefix>>

\* The response body while the documents are awaited: jsonResPrefix is built
\* and kept in a local; the stream does not exist yet.
BodyBeforeDocuments(prefix) == <<>>

\* handleSearch from `await findSerialisedTermBitmaps` to its next await.
BitmapsRetrieved(r) ==
    /\ req[r].pc = "awaitBitmaps"
    /\ AllReturned(req[r].termFetch)
    /\ LET mtb  == modeTermBitmaps(req[r].termFetch)
           kept == <<mtb[1], FilterResolved(mtb[2]), FilterResolved(mtb[3])>>
           b    == buildIndexQuery(arena, r, req[r].continuation, kept)
           x    == executePostingsListQuery(b.arena, r, b.words)
           docs == [j \in 1..Len(x.result.documents) |->
                        findInChunksDoc(x.result.documents[j])]
       IN  IF RequireMissing(mtb[1]) THEN
               /\ req' = [req EXCEPT ![r].pc = "done",
                                     ![r].response = responseNoResults]
               /\ arena' = Forget(arena, req')
           ELSE IF AllEmpty(kept) THEN
               /\ req' = [req EXCEPT ![r].pc = "awaitDefault",
                                     ![r].kvGets = @ + 1]
               /\ arena' = Forget(arena, req')
           ELSE \E ok \in BOOLEAN :
               /\ req' = [req EXCEPT
                     ![r].evalCalls = @ + 1,
                     ![r].inputBytes = x.inputBytes,
                     ![r].input = x.input,
                     ![r].pc = IF ok THEN "awaitDocs" ELSE "threw",
                     ![r].error = IF ok THEN @ ELSE "Failed to execute query",
                     ![r].result = IF ok THEN x.result ELSE @,
                     ![r].response.chunks =
                         IF ok THEN BodyBeforeDocuments(
                                        jsonResPrefix(x.result.total,
                                                      req[r].continuation))
                         ELSE @,
                     ![r].docFetch = IF ok THEN docs ELSE @,
                     ![r].kvGets = IF ok THEN @ + Cardinality(Pending(docs)) ELSE @]
               /\ arena' = Forget(x.arena, req')
    /\ UNCHANGED <<client, served, MAX_QUERY_BYTES, codec>>

\* responseDefaultResults after `await KV.get('default', 'text')`.
DefaultFetched(r) ==
    /\ req[r].pc = "awaitDefault"
    /\ req' = [req EXCEPT ![r].pc = "done", ![r].response = responseDefaultResults]
    /\ UNCHANGED <<arena, client, served, MAX_QUERY_BYTES, codec>>

DefaultFetchFailed(r) ==
    /\ req[r].pc = "awaitDefault"
    /\ req' = [req EXCEPT ![r].pc = "threw", ![r].error = "KV"]
    /\ UNCHANGED <<arena, client, served, MAX_QUERY_BYTES, codec>>

\* findInChunks(docId, 'doc_') after the await.
DocFetched(r, j) ==
    /\ j \in Pending(req[r].docFetch)
    /\ LET f   == req[r].docFetch[j]
           len == ChunkByteLength("doc_", f.chunkId)
           m   == malloc(arena, len)
           a2  == writeAll(m.arena, m.ptr, len, ChunkData("doc_", f.chunkId), r)
           e   == search_bst_chunk_for_doc(a2, m.ptr, len, f.doc)
       IN  /\ req' = [req EXCEPT ![r].docFetch = [Settle(@, j, e) EXCEPT ![j].entry = e],
                                 ![r].arrived = Append(@, j)]
           /\ arena' = Forget(a2, req')
    /\ UNCHANGED <<client, served, MAX_QUERY_BYTES, codec>>

DocFetchFailed(r, j) ==
    /\ j \in Pending(req[r].docFetch)
    /\ req' = [req EXCEPT ![r].docFetch[j] = FetchRejected(@),
                          ![r].pc = IF @ = "awaitDocs" THEN "threw" ELSE @,
                          ![r].error = IF req[r].pc = "awaitDocs" THEN "KV" ELSE @]
    /\ UNCHANGED <<arena, client, served, MAX_QUERY_BYTES, codec>>

\* handleSearch from `await Promise.all(documents)` to the Response.
DocumentsFetched(r) ==
    /\ req[r].pc = "awaitDocs"
    /\ AllReturned(req[r].docFetch)
    /\ LET documents == Documents(req[r].docFetch)
       IN  req' = [req EXCEPT
               ![r].pc = "done",
               ![r].response =
                   [status       |-> 200,
                    chunks       |-> <<jsonResPrefix(req[r].result.total,
                                                     req[r].continuation)>>
                                        \o WriteDocuments(documents, 1)
                                        \o <<jsonResSuffix>>,
                    results      |-> documents,
                    continuation |-> req[r].continuation,
                    total        |-> req[r].result.total]]
    /\ UNCHANGED <<arena, client, served, MAX_QUERY_BYTES, codec>>

(***************************************************************************)
(* A client paging through a query: cursor 0 first, then the continuation  *)
(* of the previous response, until it reads null.                          *)
(***************************************************************************)
ClientRequest(r) ==
    /\ client.state \in {"new", "ready"}
    /\ \E q \in (IF client.state = "new" THEN ClientQueries ELSE {client.termsRaw}) :
        /\ Arrive(r, q, CharsOfNat(client.cursor))
        /\ client' = [client EXCEPT !.state = "waiting", !.termsRaw = q, !.active = r]

ClientReceive ==
    /\ client.state = "waiting"
    /\ req[client.active].pc \in {"done", "threw"}
    /\ LET rq == req[client.active]
       IN  client' =
             IF rq.pc = "threw" \/ rq.response.status # 200
             THEN [client EXCEPT !.state = "failed", !.active = 0]
             ELSE [client EXCEPT
                     !.state  = IF rq.response.continuation = -1
                                THEN "finished" ELSE "ready",
                     !.active = 0,
                     !.cursor = IF rq.response.continuation = -1
                                THEN @ ELSE rq.response.continuation,
                     !.pages  = @ + 1,
                     !.total  = rq.response.total,
                     !.docs   = @ \o rq.response.results]
    /\ UNCHANGED <<req, arena, served, MAX_QUERY_BYTES, codec>>

(***************************************************************************)
(* A MemoryWalker taken alone, over buffers that hold a pointer, a string  *)
(* and an unterminated tail.                                               *)
(***************************************************************************)
NewProbe(buffer) ==
    [buffer |-> buffer, next |-> 0, op |-> "", c |-> <<>>, ops |-> 0,
     threw |-> FALSE, bytes |-> <<>>, wanted |-> 0,
     given |-> EmptyModes, read |-> EmptyModes]

\* 4 is the position of "ab\0"; the last byte is not followed by a 0.
WalkerBuffers == { <<4, 0, 0, 0, 97, 98, 0, 99>>, <<9, 0, 0, 0>> }

SliceLengths == {0, 2, 4}

Sources == { <<7>>, <<7, 7, 7, 7, 7>> }

Words == { Wide(0, 2), Wide(Half, 2) }

Applied(op, o) ==
    [probe EXCEPT !.buffer = o.walker.buffer, !.next = o.walker.next,
                  !.op = op, !.ops = @ + 1,
                  !.threw = o.threw, !.bytes = o.bytes, !.wanted = o.wanted]

ProbeWalker == Walker(probe.buffer, probe.next)

\* jumpTo, forkAndJump and skip: the position is set, nothing is read.
Reposition ==
    /\ probe.ops < MaxWalkerOps
    /\ \/ \E ptr \in 0..(Len(probe.buffer) + 1) :
             \/ probe' = Applied("jumpTo", jumpTo(ProbeWalker, ptr))
             \/ probe' = Applied("forkAndJump", forkAndJump(ProbeWalker, ptr))
       \/ \E n \in {1, 3} : probe' = Applied("skip", skip(ProbeWalker, n))
    /\ UNCHANGED <<worker, diag, fetch>>

ReadOps ==
    {"readBoolean", "readUInt8", "readInt32LE", "readInt32BE", "readUInt32LE",
     "readUInt32BE", "readInt64LE", "readUInt64LE", "readDoubleLE",
     "readNullTerminatedString", "readAndDereferencePointer"}

ReadBy(op, w) ==
    CASE op = "readBoolean" -> readBoolean(w)
      [] op = "readUInt8" -> readUInt8(w)
      [] op = "readInt32LE" -> readInt32LE(w)
      [] op = "readInt32BE" -> readInt32BE(w)
      [] op = "readUInt32LE" -> readUInt32LE(w)
      [] op = "readUInt32BE" -> readUInt32BE(w)
      [] op = "readInt64LE" -> readInt64LE(w)
      [] op = "readUInt64LE" -> readUInt64LE(w)
      [] op = "readDoubleLE" -> readDoubleLE(w)
      [] op = "readNullTerminatedString" -> readNullTerminatedString(w)
      [] op = "readAndDereferencePointer" -> readAndDereferencePointer(w)

Read ==
    /\ probe.ops < MaxWalkerOps
    /\ \/ \E op \in ReadOps : probe' = Applied(op, ReadBy(op, ProbeWalker))
       \/ \E len \in SliceLengths :
             probe' = Applied("readSlice", readSlice(ProbeWalker, len))
    /\ UNCHANGED <<worker, diag, fetch>>

Write ==
    /\ probe.ops < MaxWalkerOps
    /\ \/ \E val \in Words :
             probe' = Applied("writeUInt32LE", writeUInt32LE(ProbeWalker, val))
       \/ \E src \in Sources :
             probe' = Applied("writeAll", walkerWriteAll(ProbeWalker, src))
    /\ UNCHANGED <<worker, diag, fetch>>

\* The c values of the requests whose cursor is followed into the input.
CursorParams ==
    { <<>>, <<"0">>, <<"2">>, <<"-", "3">>, <<"x">>, <<"2", "x">>,
      <<"2", "1", "4", "7", "4", "8", "3", "6", "4", "8">>,
      <<"4", "2", "9", "4", "9", "6", "7", "2", "9", "8">> }

\* The input of a query of no bitmap: sixteen zero bytes.
NewInput == [k \in 1..(4 + 3 * 4) |-> 0]

\* handleSearch's `continuation` of the c value, and buildIndexQuery's
\* input.writeUInt32LE(firstRank) at the start of a fresh input.
WriteFirstRank ==
    /\ \E c \in CursorParams :
          probe' = [Applied("firstRank",
                        writeUInt32LE(Walker(NewInput, 0), ParseContinuationWide(c)))
                      EXCEPT !.c = c, !.ops = MaxWalkerOps]
    /\ UNCHANGED <<worker, diag, fetch>>

(***************************************************************************)
(* buildIndexQuery taken alone: the bytes of the input it returns, and the *)
(* module's reading of those bytes once executePostingsListQuery has       *)
(* copied them in.                                                         *)
(***************************************************************************)
\* new ArrayBuffer(4 + (bitmapCount * 2 + 3) * 4): zero-filled.
InputBuffer(bitmaps) ==
    [k \in 1..(4 + (bitmapCount(bitmaps) * 2 + 3) * 4) |-> 0]

\* The input.writeUInt32LE calls from words[i] on, in order; a call that
\* throws ends the function.
RECURSIVE WriteWords(_, _, _)
WriteWords(o, words, i) ==
    IF i > Len(words) \/ o.threw THEN o
    ELSE WriteWords(writeUInt32LE(o.walker, Wide(0, words[i])), words, i + 1)

\* The little-endian 32-bit words of a buffer (each below 2^31 here).
WordsOf(buffer) ==
    [k \in 1..(Len(buffer) \div 4) |->
        LET u == Uint32Of(SubSeq(buffer, 4 * k - 3, 4 * k))
        IN  u.hi * Half + u.lo]

\* Bitmaps findInChunks can hand over: slices of 0, 4 and 8 bytes.
GivenBitmaps == { Bitmap({}), Bitmap({1}), Bitmap({2, 3}) }

BitmapListsOf(n) == UNION { [1..k -> GivenBitmaps] : k \in 0..n }

\* modeTermBitmaps of at most MAX_QUERY_TERMS bitmaps in all.
ModeTermBitmapLists ==
    { m \in BitmapListsOf(MAX_QUERY_TERMS) \X BitmapListsOf(MAX_QUERY_TERMS)
              \X BitmapListsOf(MAX_QUERY_TERMS) :
        bitmapCount(m) <= MAX_QUERY_TERMS }

FirstRankParams ==
    { <<>>, <<"2">>, <<"4", "2", "9", "4", "9", "6", "7", "2", "9", "8">> }

\* handleSearch from queryRunner.reset() to executePostingsListQuery, on
\* bitmaps already resolved: the cursor is written from its two halves, the
\* words after it are buildIndexQuery's, and the module reads the copy.
BuildIndexQuery ==
    /\ \E c \in FirstRankParams, modes \in ModeTermBitmapLists :
          LET built == buildIndexQuery(reset(arena), 1, 0, modes)
              first == writeUInt32LE(Walker(InputBuffer(modes), 0),
                                     ParseContinuationWide(c))
              input == WriteWords(first, built.words, 2)
              x     == executePostingsListQuery(built.arena, 1,
                                                WordsOf(input.walker.buffer))
          IN  /\ probe' = [Applied("buildIndexQuery", input)
                             EXCEPT !.c = c, !.ops = MaxWalkerOps,
                                    !.given = modes, !.read = x.input]
              /\ arena' = x.arena
    /\ UNCHANGED <<req, client, served, MAX_QUERY_BYTES, diag, fetch>>

(***************************************************************************)
(* A diagnostic call of the module (_wasm_import_log, _wasm_import_error): *)
(* argsPtr points at the format pointer followed by the arguments.         *)
(***************************************************************************)
\* Conversions written without flags, width or precision: 32-bit integers,
\* 64-bit integers (ll, j), doubles, and string, char, pointer, percent.
Int32Conversions ==
    { <<"%", "d">>, <<"%", "i">>, <<"%", "u">>, <<"%", "x">>, <<"%", "X">>, <<"%", "o">> }

Int64Conversions ==
    { <<"%", "l", "l", "d">>, <<"%", "l", "l", "i">>, <<"%", "l", "l", "u">>, <<"%", "l", "l", "x">>,
      <<"%", "l", "l", "X">>, <<"%", "l", "l", "o">>, <<"%", "j", "d">>, <<"%", "j", "i">>,
      <<"%", "j", "u">>, <<"%", "j", "x">>, <<"%", "j", "X">>, <<"%", "j", "o">> }

DoubleConversions ==
    { <<"%", "f">>, <<"%", "F">>, <<"%", "e">>, <<"%", "E">>, <<"%", "g">>, <<"%", "G">> }

OtherPlainConversions == { <<"%", "s">>, <<"%", "c">>, <<"%", "p">>, <<"%", "%">> }

PlainConversions ==
    Int32Conversions \cup Int64Conversions \cup DoubleConversions
        \cup OtherPlainConversions

\* Conversions that carry a flag, a field width or a precision ("." alone is
\* the precision zero of printf).
DecoratedConversions ==
    { <<"%", "5", "d">>, <<"%", "-", "d">>, <<"%", ".", "2", "f">>, <<"%", "0", "5", "d">>,
      <<"%", "*", "d">>, <<"%", ".", "*", "f">>, <<"%", "+", "l", "l", "d">>, <<"%", " ", "d">>,
      <<"%", "#", "x">>, <<"%", "'", "d">>, <<"%", ".", "d">>, <<"%", ".", "f">> }

\* Length and type that no parser takes.
UnparsedConversions ==
    { <<"%", "L", "d">>, <<"%", "l", "f">>, <<"%", "l", "s">>,
      <<"%", "h", "s">>, <<"%", "I", "6", "4", "d">>, <<"%", "q", "d">>,
      <<"%", "l", "l", "f">>, <<"%", "l", "l", "s">>, <<"%", "I", "3", "2", "u">>,
      <<"%", "I", "d">> }

\* Further parts: other lengths, and text that is no conversion.
OtherParts ==
    { <<"%", "h", "h", "d">>, <<"%", "l", "d">>, <<"%", "z", "u">>, <<"%", "t", "d">>,
      <<"%", "L", "f">>, <<"%", "a">>, <<"%", "l", "c">>, <<"%", "n">>,
      <<":">> }

Parts ==
    PlainConversions \cup DecoratedConversions \cup UnparsedConversions
        \cup OtherParts

\* The format strings of the model: one part, or a plain conversion and a part.
Formats ==
    {<<a>> : a \in Parts} \cup {<<a, b>> : a \in PlainConversions, b \in Parts}

RECURSIVE Concat(_)
Concat(parts) ==
    IF parts = <<>> THEN <<>> ELSE Head(parts) \o Concat(Tail(parts))

\* The memory at argsPtr = 0: the format pointer, four argument words and
\* the format string with its terminator.  Each argument word holds the
\* position of the format string, a valid string reference.
DiagMemory(parts) ==
    LET at == 4 + 4 * 4
    IN  <<at, 0, 0, 0>> \o <<at, 0, 0, 0>> \o <<at, 0, 0, 0>> \o <<at, 0, 0, 0>>
            \o <<at, 0, 0, 0>> \o Encode(Concat(parts)) \o <<0>>

NoFormatResult == [kind |-> "", next |-> 0, text |-> <<>>, reads |-> <<>>]

NewDiag(parts) == [parts |-> parts, called |-> "", result |-> NoFormatResult]

\* _wasm_import_log(argsPtr): the formatted message goes to console.log.
ImportLog ==
    /\ diag.called = ""
    /\ diag' = [diag EXCEPT
                   !.called = "log",
                   !.result = formatFromVarargs(
                                  forkAndJump(Walker(DiagMemory(diag.parts), 0), 0).walker)]
    /\ UNCHANGED <<worker, probe, fetch>>

\* _wasm_import_error(argsPtr): the formatted message is thrown as an Error.
ImportError ==
    /\ diag.called = ""
    /\ diag' = [diag EXCEPT
                   !.called = "error",
                   !.result = formatFromVarargs(
                                  forkAndJump(Walker(DiagMemory(diag.parts), 0), 0).walker)]
    /\ UNCHANGED <<worker, probe, fetch>>

(***************************************************************************)
(* The scraper's fetchDdo: up to MAX_RETRIES + 1 requests for one page,    *)
(* and the data cut out of the page's scripts.  A script is held as a      *)
(* sequence of pieces: "B" is DDO_BEFORE, "A" is DDO_AFTER, "{1}" and      *)
(* "{2}" are JSON texts, the others are text that is no JSON.              *)
(***************************************************************************)
MAX_RETRIES == 5

DDO_BEFORE == "B"

DDO_AFTER == "A"

\* String.indexOf(piece, from): 0-based, -1 when absent.
IndexOf(js, piece, from) ==
    LET at == {k \in (from + 1)..Len(js) : js[k] = piece}
    IN  IF at = {} THEN -1 ELSE (CHOOSE k \in at : \A l \in at : k <= l) - 1

\* String.slice(start, end): a negative end counts from the end.
StringSlice(js, start, end) ==
    LET e == IF end < 0 THEN Max(Len(js) + end, 0) ELSE Min(end, Len(js))
    IN  SubSeq(js, start + 1, e)

\* JSON.parse: the value of a JSON text, SyntaxError on anything else.
JSONParse(text) ==
    IF text = <<"{1}">> THEN [kind |-> "data", data |-> 1]
    ELSE IF text = <<"{2}">> THEN [kind |-> "data", data |-> 2]
    ELSE [kind |-> "throw", data |-> 0]

ReturnNull == [kind |-> "null", data |-> 0]

\* The loop over $('script').get(): the first script that holds DDO_BEFORE
\* is cut and parsed; with none, the loop ends and null is returned.
RECURSIVE ScanScripts(_, _)
ScanScripts(scripts, i) ==
    IF i > Len(scripts) THEN ReturnNull
    ELSE LET js    == scripts[i]
             start == IndexOf(js, DDO_BEFORE, 0)
         IN  IF start = -1 THEN ScanScripts(scripts, i + 1)
             ELSE JSONParse(StringSlice(js, start + 1,
                                        IndexOf(js, DDO_AFTER, start)))

\* req's callback: the promise rejects on a transport error and on a status
\* from 500 on, and resolves with the response otherwise.
Rejects(response) == response.error \/ response.statusCode >= 500

\* fetchDdo once req has resolved.
AfterResponse(response) ==
    IF response.statusCode < 400 THEN ScanScripts(response.body, 1)
    ELSE ReturnNull

Scripts ==
    { <<"x">>, <<"B", "{1}", "A">>, <<"x", "B", "{2}", "A", "x">>,
      <<"A", "B", "{2}", "A">>, <<"B", "x", "A">>, <<"B", "{1}">>,
      <<"B", "{1}", ";">> }

Pages == { <<>> } \cup { <<a>> : a \in Scripts }
             \cup { <<a, b>> : a \in {<<"x">>, <<"B", "{1}", "A">>}, b \in Scripts }

StatusCodes == {200, 399, 400, 404, 499, 500, 503}

Response(error, statusCode, body) ==
    [error |-> error, statusCode |-> statusCode, body |-> body]

\* What one request can end in: a transport error (no response), or a
\* response; only a page below 400 is looked into.
Responses ==
    { Response(TRUE, 0, <<>>) }
        \cup { Response(FALSE, c, <<>>) : c \in {k \in StatusCodes : k >= 400} }
        \cup { Response(FALSE, c, b) : c \in {k \in StatusCodes : k < 400}, b \in Pages }

NewFetch ==
    [pc |-> "idle", retry |-> 0, attempts |-> 0, responses |-> <<>>,
     outcome |-> [kind |-> "pending", data |-> 0]]

\* The head of the for loop: another round while retry <= MAX_RETRIES, else
\* the `return null` after the loop.
LoopHead(f) ==
    IF f.retry <= MAX_RETRIES THEN [f EXCEPT !.pc = "wait"]
    ELSE [f EXCEPT !.pc = "done", !.outcome = ReturnNull]

\* fetchDdo(uri, qs) is called: retry = 0.
CallFetchDdo ==
    /\ fetch.pc = "idle"
    /\ fetch' = LoopHead([fetch EXCEPT !.retry = 0])
    /\ UNCHANGED <<worker, probe, diag>>

\* The jitter timer fires and the request is sent.
Waited ==
    /\ fetch.pc = "wait"
    /\ fetch' = [fetch EXCEPT !.pc = "req", !.attempts = @ + 1]
    /\ UNCHANGED <<worker, probe, diag>>

\* req rejects: the catch block logs and continues with retry + 1.
ReqRejected ==
    /\ fetch.pc = "req"
    /\ \E response \in Responses :
          /\ Rejects(response)
          /\ fetch' = LoopHead([fetch EXCEPT !.retry = @ + 1,
                                             !.responses = Append(@, response)])
    /\ UNCHANGED <<worker, probe, diag>>

\* req resolves: the page is scanned, or the status is 400 or more; either
\* way the loop is left.
ReqResolved ==
    /\ fetch.pc = "req"
    /\ \E response \in Responses :
          /\ ~Rejects(response)
          /\ fetch' = [fetch EXCEPT !.pc = "done",
                                    !.responses = Append(@, response),
                                    !.outcome = AfterResponse(response)]
    /\ UNCHANGED <<worker, probe, diag>>

(***************************************************************************)
(* The specification.                                                      *)
(***************************************************************************)
\* The longest input buildIndexQuery makes of MAX_QUERY_TERMS bitmaps.
LargestInput == 4 + (MAX_QUERY_TERMS * 2 + 3) * 4

\* Byte budgets the build may have configured: one that holds every query the
\* term limit lets through, and a shorter one.
QueryByteBudgets == {LargestInput - 8, LargestInput}

\* The module after its top-level statements have run.
Loaded ==
    /\ req = [r \in Reqs |-> IdleReq]
    /\ arena = EmptyArena
    /\ client = NewClient
    /\ served = 0
    /\ probe = NewProbe(<<>>)
    /\ diag = NewDiag(<<>>)
    /\ fetch = NewFetch

Init ==
    /\ Loaded
    /\ MAX_QUERY_BYTES = LargestInput

Next ==
    \/ \E r \in Reqs, s \in Searches : Request(r, s.t, s.c)
    \/ \E r \in Reqs : \E i \in 1..MAX_QUERY_TERMS : TermFetched(r, i)
    \/ \E r \in Reqs : \E i \in 1..MAX_QUERY_TERMS : TermFetchFailed(r, i)
    \/ \E r \in Reqs : BitmapsRetrieved(r)
    \/ \E r \in Reqs : DefaultFetched(r)
    \/ \E r \in Reqs : DefaultFetchFailed(r)
    \/ \E r \in Reqs : \E j \in 1..PAGE_SIZE : DocFetched(r, j)
    \/ \E r \in Reqs : \E j \in 1..PAGE_SIZE : DocFetchFailed(r, j)
    \/ \E r \in Reqs : DocumentsFetched(r)

Spec == Init /\ [][Next]_vars

\* The same worker, built with any of the byte budgets.
InitAnyBudget ==
    /\ Loaded
    /\ MAX_QUERY_BYTES \in QueryByteBudgets

SpecAnyBudget == InitAnyBudget /\ [][Next]_vars

\* The same worker with the paging client among its callers.
NextPaging ==
    \/ Next
    \/ \E r \in Reqs : ClientRequest(r)
    \/ ClientReceive

SpecPaging == Init /\ [][NextPaging]_vars

\* A MemoryWalker taken alone.
InitCodec ==
    /\ req = [r \in Reqs |-> IdleReq]
    /\ arena = EmptyArena
    /\ client = NewClient
    /\ served = 0
    /\ MAX_QUERY_BYTES = LargestInput
    /\ \E b \in WalkerBuffers : probe = NewProbe(b)
    /\ diag = NewDiag(<<>>)
    /\ fetch = NewFetch

NextCodec == Reposition \/ Read \/ Write \/ WriteFirstRank

SpecCodec == InitCodec /\ [][NextCodec]_vars

\* buildIndexQuery and the module's reading of its input, taken alone.
NextQueryInput == BuildIndexQuery

SpecQueryInput == Init /\ [][NextQueryInput]_vars

\* One call of fetchDdo.  The timer fires, and the request library calls
\* back with a response or with an error (its `timeout` option bounds the
\* wait), so every enabled step is taken in the end.
NextFetch == CallFetchDdo \/ Waited \/ ReqRejected \/ ReqResolved

SpecFetch == Init /\ [][NextFetch]_vars /\ WF_vars(NextFetch)

\* The diagnostic calls taken alone.
InitFormat ==
    /\ req = [r \in Reqs |-> IdleReq]
    /\ arena = EmptyArena
    /\ client = NewClient
    /\ served = 0
    /\ MAX_QUERY_BYTES = LargestInput
    /\ probe = NewProbe(<<>>)
    /\ \E f \in Formats : diag = NewDiag(f)
    /\ fetch = NewFetch

NextFormat == ImportLog \/ ImportError

SpecFormat == InitFormat /\ [][NextFormat]_vars

(***************************************************************************)
(* What the claims speak of.                                               *)
(***************************************************************************)
Arrived(r) == req[r].pc # "idle"

WellFormed(r) == Arrived(r) /\ parseQuery(req[r].termsRaw).kind = "ok"

WithinTermLimit(r) ==
    WellFormed(r) /\ termCount(parseQuery(req[r].termsRaw).modes) <= MAX_QUERY_TERMS

\* Every findInChunks of the request's terms has returned (none has failed).
TermsResolved(r) ==
    /\ WithinTermLimit(r)
    /\ \A i \in 1..Len(req[r].termFetch) : req[r].termFetch[i].st = "done"

RequireUnresolved(r) ==
    \E i \in 1..Len(req[r].termFetch) :
        /\ req[r].termFetch[i].mode = 0
        /\ req[r].termFetch[i].st = "done"
        /\ ~req[r].termFetch[i].res.some

\* C1: a well-formed query within the term limit, all of whose terms have
\* resolved and one of whose Require terms resolved to none, is answered with
\* exactly {"results":[],"continuation":null,"total":0} (it neither throws nor
\* takes another path), and index_query is never called for it.
C1_RequireMissShortCircuits ==
    \A r \in Reqs :
        (TermsResolved(r) /\ RequireUnresolved(r)) =>
            /\ req[r].evalCalls = 0
            /\ req[r].pc \in {"awaitBitmaps", "done"}
            /\ req[r].pc = "done" =>
                 /\ req[r].response.status = 200
                 /\ req[r].response.chunks =
                        <<"{\"results\":[],\"continuation\":null,\"total\":0}">>

\* A request answered after one Require term resolved to none while another
\* term resolved to a bitmap.
C1_Witness ==
    \E r \in Reqs :
        /\ req[r].pc = "done"
        /\ TermsResolved(r)
        /\ RequireUnresolved(r)
        /\ \E i \in 1..Len(req[r].termFetch) : req[r].termFetch[i].res.some

\* No Require term, and every Contain and Exclude term resolved to none.
EffectivelyEmpty(r) ==
    /\ TermsResolved(r)
    /\ \A i \in 1..Len(req[r].termFetch) :
          req[r].termFetch[i].mode # 0 /\ ~req[r].termFetch[i].res.some

\* C2: a well-formed query whose three lists are empty once the unresolved
\* Contain and Exclude terms are dropped is answered with the stored default
\* snapshot wrapped as {"results":<default>,"continuation":null,"total":0},
\* unless reading the snapshot fails, and index_query is never called for it.
C2_EmptyQueryGetsDefault ==
    \A r \in Reqs :
        EffectivelyEmpty(r) =>
            /\ req[r].evalCalls = 0
            /\ req[r].pc \in {"awaitBitmaps", "awaitDefault", "done", "threw"}
            /\ req[r].pc = "threw" => req[r].error = "KV"
            /\ req[r].pc = "done" =>
                 /\ req[r].response.status = 200
                 /\ req[r].response.chunks =
                        <<"{\"results\":" \o DefaultSnapshot
                              \o ",\"continuation\":null,\"total\":0}">>

\* A request made only of unresolved Contain/Exclude terms, answered.
C2_Witness ==
    \E r \in Reqs :
        /\ req[r].pc = "done"
        /\ EffectivelyEmpty(r)
        /\ Len(req[r].termFetch) > 0

NoDuplicates(seq) ==
    \A i, j \in 1..Len(seq) : i # j => seq[i] # seq[j]

\* C3: paging through a fixed query from cursor 0, each request carrying the
\* continuation of the previous response, never returns a document twice, and
\* once the client reads continuation = null it holds exactly `total` documents.
C3_PaginationComplete ==
    /\ NoDuplicates(client.docs)
    /\ client.state = "finished" => Len(client.docs) = client.total

\* The response was produced through the evaluator.
Evaluated(r) == req[r].pc = "done" /\ req[r].evalCalls > 0

\* C4: in a response produced through the evaluator, the continuation written
\* in the body is the nextCursor of the evaluator's QueryResult: the cursor plus
\* PAGE_SIZE while results remain, null at the end of the results.
C4_ContinuationIsNextCursor ==
    \A r \in Reqs :
        Evaluated(r) =>
            req[r].response.chunks[1] =
                jsonResPrefix(req[r].result.total, req[r].result.continuation)

\* C5: while two requests are in flight, the key bytes a suspended findInChunks
\* of one of them still points at are inside the allocated part of the arena and
\* are the bytes that request wrote: no reset or malloc made for the other
\* request has reclaimed or overwritten them.
C5_ArenaIsolation ==
    \A r1, r2 \in Reqs :
        (r1 # r2 /\ InFlight(r1) /\ InFlight(r2)) =>
            \A i \in Pending(req[r1].termFetch) :
                LET f == req[r1].termFetch[i]
                IN  /\ f.keyPtr + f.keyLen <= arena.next
                    /\ \E g \in arena.regions :
                          g.ptr = f.keyPtr /\ g.len = f.keyLen /\ g.owner = r1

\* Some value of t does not match <digit 0-2>_<non-empty term>.
Malformed(r) ==
    Arrived(r) /\ \E k \in 1..Len(req[r].termsRaw) : ~MatchT(req[r].termsRaw[k]).matched

\* C6: a request with a t value that does not match <digit 0-2>_<non-empty
\* term> is answered 400 {"error":"Malformed query"} and issues no KV.get,
\* whatever its other t values are.
C6_MalformedRejected ==
    \A r \in Reqs :
        Malformed(r) =>
            /\ req[r].pc = "done"
            /\ req[r].response.status = 400
            /\ req[r].response.chunks = <<"{\"error\":\"Malformed query\"}">>
            /\ req[r].kvGets = 0

\* C7: a parsed query with more than MAX_QUERY_TERMS terms over its three lists
\* is answered 413 with no findInChunks call and no KV.get; one with at most
\* MAX_QUERY_TERMS terms is never answered 413.
C7_TermLimit ==
    \A r \in Reqs :
        WellFormed(r) =>
            LET n == termCount(parseQuery(req[r].termsRaw).modes)
            IN  /\ n > MAX_QUERY_TERMS =>
                     /\ req[r].pc = "done"
                     /\ req[r].response.status = 413
                     /\ req[r].response.chunks = <<"{\"error\":\"Too many terms\"}">>
                     /\ req[r].kvGets = 0
                     /\ req[r].termFetch = <<>>
                /\ n <= MAX_QUERY_TERMS => req[r].response.status # 413

\* A request of MAX_QUERY_TERMS + 1 terms, answered.
C7_Witness ==
    \E r \in Reqs :
        /\ WellFormed(r)
        /\ termCount(parseQuery(req[r].termsRaw).modes) = MAX_QUERY_TERMS + 1
        /\ req[r].response.status = 413

\* C8: the QueryInput written into the buffer of index_query_malloc and passed
\* to index_query is never longer than MAX_QUERY_BYTES.
C8_QueryWithinByteBudget ==
    \A r \in Reqs : req[r].inputBytes <= MAX_QUERY_BYTES

\* C9: within a request, index_query is called only once every term's
\* findInChunks has returned, and a document fetch exists only once index_query
\* has been called and has returned its result.
C9_ResolveEvaluateFetch ==
    \A r \in Reqs :
        /\ req[r].evalCalls > 0 =>
              \A i \in 1..Len(req[r].termFetch) : req[r].termFetch[i].st = "done"
        /\ req[r].docFetch # <<>> =>
              /\ req[r].evalCalls = 1
              /\ req[r].pc \in {"awaitDocs", "done", "threw"}
              /\ Len(req[r].docFetch) = Len(req[r].result.documents)

\* A request with two resolved terms, past the evaluator, awaiting a document.
C9_Witness ==
    \E r \in Reqs :
        /\ req[r].pc = "awaitDocs"
        /\ Len(req[r].termFetch) = 2
        /\ Pending(req[r].docFetch) # {}

\* The document a result id resolves to in the document chunks, if any.
Stored(doc) ==
    DocManifest(doc).found /\ DocChunkEntry(DocManifest(doc).chunkId, doc).some

\* C10: whatever order the document fetches of a page complete in, the
\* response holds, after its prefix, the stored documents of the evaluator's
\* ids in the evaluator's order, ids that resolve to none left out, one comma
\* between consecutive documents, then the suffix.
C10_DocumentsInResultOrder ==
    \A r \in Reqs :
        Evaluated(r) =>
            LET ids == SelectSeq(req[r].result.documents, Stored)
                ch  == req[r].response.chunks
                n   == Len(ids)
            IN  /\ Len(ch) = IF n = 0 THEN 2 ELSE 2 * n + 1
                /\ ch[Len(ch)] = "]}"
                /\ \A k \in 1..n : ch[2 * k] = DocJson(ids[k])
                /\ \A k \in 1..(n - 1) : ch[2 * k + 1] = ","

\* A two-document page answered after its second fetch completed first.
C10_Witness ==
    \E r \in Reqs :
        /\ Evaluated(r)
        /\ req[r].arrived = <<2, 1>>
        /\ Len(req[r].response.results) = 2

\* C11: a request that failed (a term fetch, the evaluator or a document
\* fetch) has written no byte of a response body, and a body holds bytes only
\* once the request has its Response and every document fetch of its page has
\* returned.
C11_NoPartialResponse ==
    \A r \in Reqs :
        /\ req[r].pc = "threw" => req[r].response.chunks = <<>>
        /\ req[r].response.chunks # <<>> =>
              /\ req[r].pc = "done"
              /\ AllReturned(req[r].docFetch)

\* A request that failed on a document fetch after another document of the
\* same page had been fetched.
C11_Witness ==
    \E r \in Reqs :
        /\ req[r].pc = "threw"
        /\ req[r].evalCalls = 1
        /\ req[r].arrived # <<>>
        /\ \E j \in 1..Len(req[r].docFetch) : req[r].docFetch[j].st = "failed"

\* index_query returned the null reference, or a KV.get of the request failed.
Failed(r) == req[r].error \in {"Failed to execute query", "KV"}

\* C12: a request whose evaluator call returned the null reference or one of
\* whose blob-store fetches failed is answered, and its answer is the JSON
\* error envelope {"error": <message>} with a 500-class status.
C12_FailureEnvelope ==
    \A r \in Reqs :
        Failed(r) =>
            /\ req[r].pc = "done"
            /\ req[r].response.status \in 500..599
            /\ req[r].response.chunks =
                   responseError(req[r].error, req[r].response.status).chunks

AnyFailed(calls) == \E i \in 1..Len(calls) : calls[i].st = "failed"

\* C13: every findInChunks call issues at most one KV.get for its chunk (none
\* when the manifest has no chunk for the key); a call whose KV.get failed has
\* issued exactly that one, its request has failed, and a request that failed
\* on a term fetch has started no document fetch.
C13_NoRetry ==
    \A r \in Reqs :
        LET calls == req[r].termFetch \o
                         [j \in 1..Len(req[r].docFetch) |->
                             [st |-> req[r].docFetch[j].st,
                              gets |-> req[r].docFetch[j].gets]]
        IN  /\ \A i \in 1..Len(calls) :
                  /\ calls[i].gets <= 1
                  /\ calls[i].st = "failed" =>
                        calls[i].gets = 1 /\ req[r].pc = "threw"
            /\ AnyFailed(req[r].termFetch) => req[r].docFetch = <<>>
            /\ req[r].kvGets <= Len(calls) + 1

\* A request one of whose two term fetches failed while the other returned.
C13_Witness ==
    \E r \in Reqs :
        /\ req[r].pc = "threw"
        /\ \E i, k \in 1..Len(req[r].termFetch) :
              /\ req[r].termFetch[i].st = "failed"
              /\ req[r].termFetch[k].st = "done"
              /\ req[r].termFetch[k].gets = 1

\* C14: a findInChunks call that returned gave none exactly when the manifest
\* had no chunk for the key or the chunk search found no entry; with no chunk
\* in the manifest it issued no KV.get; otherwise it returned the payload of
\* the entry found, all payloadLength bytes of it; and a call fails only on a
\* chunk the manifest named, never for absence.
C14_ResolveNoneOrPayload ==
    \A r \in Reqs :
        /\ \A i \in 1..Len(req[r].termFetch) :
              LET f == req[r].termFetch[i]
              IN  /\ ~f.found => f.gets = 0 /\ f.st = "done"
                  /\ f.st = "done" =>
                        /\ ~f.res.some <=> (~f.found \/ ~f.entry.some)
                        /\ f.res.some =>
                              f.res.len = f.entry.len /\ f.res.docs = f.entry.docs
        /\ \A j \in 1..Len(req[r].docFetch) :
              LET f == req[r].docFetch[j]
              IN  /\ ~f.found => f.gets = 0 /\ f.st = "done"
                  /\ f.st = "done" =>
                        /\ ~f.res.some <=> (~f.found \/ ~f.entry.some)
                        /\ f.res.some => f.res.json = f.entry.json

\* A request whose term calls returned: one on a key its chunk does not hold,
\* one on a key found.
C14_Witness ==
    \E r \in Reqs : \E i, k \in 1..Len(req[r].termFetch) :
        /\ req[r].termFetch[i].st = "done"
        /\ req[r].termFetch[i].found
        /\ ~req[r].termFetch[i].res.some
        /\ req[r].termFetch[k].st = "done"
        /\ req[r].termFetch[k].res.some
        /\ req[r].termFetch[k].res.len > 0

\* A t value of the form <digit 0-2>_<non-empty term>.
HasTermForm(value) ==
    Len(value) >= 3 /\ value[1] \in {"0", "1", "2"} /\ value[2] = "_"

\* The terms of one mode among the t values: all that follows the '<digit>_'
\* prefix of each value of that mode, in input order.
RECURSIVE TermsOfMode(_, _, _)
TermsOfMode(termsRaw, mode, i) ==
    IF i > Len(termsRaw) THEN <<>>
    ELSE (IF termsRaw[i][1] = mode
          THEN <<SubSeq(termsRaw[i], 3, Len(termsRaw[i]))>> ELSE <<>>)
            \o TermsOfMode(termsRaw, mode, i + 1)

\* C18: when every t value of a request has the form <digit 0-2>_<non-empty
\* term>, parseQuery succeeds (the request neither throws in it nor is answered
\* "Malformed query") and its three lists hold, each in input order, the whole
\* terms of the values of mode 0, 1 and 2.
C18_ParseQueryKeepsTerms ==
    \A r \in Reqs :
        (req[r].pc # "idle" /\ \A k \in 1..Len(req[r].termsRaw) :
                                   HasTermForm(req[r].termsRaw[k])) =>
            /\ req[r].error # "URIError"
            /\ req[r].response.status # 400
            /\ req[r].query = <<TermsOfMode(req[r].termsRaw, "0", 1),
                                TermsOfMode(req[r].termsRaw, "1", 1),
                                TermsOfMode(req[r].termsRaw, "2", 1)>>

\* The documents of the bitmaps the mode's findInChunks calls returned, in
\* call order, the calls that returned none left out.
RECURSIVE ResolvedOfMode(_, _, _)
ResolvedOfMode(calls, mode, i) ==
    IF i > Len(calls) THEN <<>>
    ELSE (IF calls[i].mode = mode /\ calls[i].res.some
          THEN <<calls[i].res.docs>> ELSE <<>>)
            \o ResolvedOfMode(calls, mode, i + 1)

ContainOrExcludeUnresolved(r) ==
    \E i \in 1..Len(req[r].termFetch) :
        /\ req[r].termFetch[i].mode # 0
        /\ req[r].termFetch[i].st = "done"
        /\ ~req[r].termFetch[i].res.some

\* C20: a request whose terms have all resolved, one of Contain or Exclude to
\* none, is not failed for it (it is never answered with an error, and throws
\* only on a failed KV.get or evaluator call), and the input index_query reads
\* holds for Require, Contain and Exclude, in this order, the resolved bitmaps
\* of that mode's terms in term order and nothing else.
C20_UnresolvedDroppedInPlace ==
    \A r \in Reqs :
        /\ (TermsResolved(r) /\ ContainOrExcludeUnresolved(r)) =>
              /\ req[r].response.status \in {0, 200}
              /\ req[r].pc = "threw" => Failed(r)
        /\ req[r].evalCalls > 0 =>
              req[r].input = <<ResolvedOfMode(req[r].termFetch, 0, 1),
                              ResolvedOfMode(req[r].termFetch, 1, 1),
                              ResolvedOfMode(req[r].termFetch, 2, 1)>>

\* Requests past the evaluator: one with an unresolved Contain term dropped
\* beside a Require bitmap, one with two Contain bitmaps.
C20_Witness ==
    /\ \E r \in Reqs :
          /\ req[r].evalCalls > 0
          /\ ContainOrExcludeUnresolved(r)
          /\ Len(req[r].input[1]) = 1 /\ req[r].input[2] = <<>>
    /\ \E r \in Reqs :
          /\ req[r].evalCalls > 0
          /\ Len(req[r].input[2]) = 2
          /\ req[r].input[2][1] # req[r].input[2][2]

TransferOps == ReadOps \cup {"readSlice", "writeUInt32LE", "writeAll"}

\* C15: a MemoryWalker read or write that did not throw has left the position
\* inside the buffer and has transferred all the bytes it was to transfer.
C15_WalkerBoundsChecked ==
    (probe.op \in TransferOps /\ ~probe.threw) =>
        /\ probe.next <= Len(probe.buffer)
        /\ Len(probe.bytes) = probe.wanted

AllDigits(c) == c # <<>> /\ \A i \in 1..Len(c) : IsDigit(c[i])

\* C19: the cursor at the start of the input, as index_query reads it, is not
\* negative; it is the value of c when c is a string of digits, else 0.
C19_CursorNonNegativeInteger ==
    probe.op = "firstRank" =>
        LET b == SubSeq(probe.buffer, 1, 4)
        IN  /\ ~Int32Negative(b)
            /\ Uint32Of(b) = IF AllDigits(probe.c)
                              THEN DigitsWide(probe.c, 1, WideZero)
                              ELSE WideZero

\* The bytes the argument of a plain conversion takes in the argument buffer.
ArgumentBytes(part) ==
    IF part \in Int64Conversions \cup DoubleConversions THEN 8
    ELSE IF part = <<"%", "%">> THEN 0
    ELSE 4

\* C16: a format string made of conversions written without flags, width or
\* precision (d i u x X o, these with ll or j, f F e E g G, s, c, p, %%) is
\* decoded without error, each conversion taking the bytes of its argument from
\* the argument buffer, in the order of the conversions.
C16_PlainConversionsDecoded ==
    (diag.called # "" /\ \A k \in 1..Len(diag.parts) :
                             diag.parts[k] \in PlainConversions) =>
        /\ diag.result.kind = "ok"
        /\ diag.result.reads =
               [k \in 1..Len(diag.parts) |-> ArgumentBytes(diag.parts[k])]

Rejected(part) == part \in DecoratedConversions \cup UnparsedConversions

\* C17: a format string with a conversion that carries a flag, a width or a
\* precision, or whose length and type no parser takes, ends in an error with
\* no message text, and no argument is taken for that conversion or after it.
C17_UnsupportedConversionsRejected ==
    \A k \in 1..Len(diag.parts) :
        (/\ diag.called # ""
         /\ Rejected(diag.parts[k])
         /\ \A j \in 1..(k - 1) : ~Rejected(diag.parts[j])) =>
            /\ diag.result.kind \in {"Error", "SyntaxError"}
            /\ diag.result.text = <<>>
            /\ Len(diag.result.reads) < k

\* The lists of document sets that the bitmaps given to buildIndexQuery hold.
GivenLists(p) ==
    [m \in 1..3 |-> [i \in 1..Len(p.given[m]) |-> p.given[m][i].docs]]

\* C21: the input buildIndexQuery returns is 4 + (2n + 3) * 4 bytes for n
\* bitmaps and is written to its end, and reading it back as the cursor and
\* three lists of (length, ref) pairs, each ended at its first zero length
\* word, gives the cursor and the three lists of bitmaps that were given,
\* bitmaps of byte length 0 included.
C21_QueryInputRoundTrip ==
    probe.op = "buildIndexQuery" =>
        /\ ~probe.threw
        /\ Len(probe.buffer) = 4 + (2 * bitmapCount(probe.given) + 3) * 4
        /\ probe.next = Len(probe.buffer)
        /\ Uint32Of(SubSeq(probe.buffer, 1, 4)) = ParseContinuationWide(probe.c)
        /\ ~Int32Negative(SubSeq(probe.buffer, 1, 4))
        /\ probe.read = GivenLists(probe)

\* The JSON values a page holds.
ValuesIn(body) ==
    { v \in {1, 2} :
        \E i \in 1..Len(body) : \E k \in 1..Len(body[i]) :
            body[i][k] = (IF v = 1 THEN "{1}" ELSE "{2}") }

FetchDdoBounded ==
    /\ fetch.attempts <= MAX_RETRIES + 1
    /\ Len(fetch.responses) <= fetch.attempts
    /\ \A i \in 1..Len(fetch.responses) :
          (i < fetch.attempts \/ fetch.pc \in {"wait", "req"})
              => (fetch.responses[i].error \/ fetch.responses[i].statusCode >= 500)

FetchDdoReturns ==
    fetch.pc = "done" =>
        \/ fetch.outcome.kind = "null"
        \/ /\ fetch.outcome.kind = "data"
           /\ LET last == fetch.responses[Len(fetch.responses)]
              IN  /\ ~last.error
                  /\ last.statusCode < 500
                  /\ fetch.outcome.data \in ValuesIn(last.body)

\* C22: a call of fetchDdo ends after at most MAX_RETRIES + 1 = 6 requests;
\* another request is made only after one that ended in a transport error or
\* a status of 500 or more, never after a response below 500; and the call
\* returns the parsed data of the first response below 500, or null.
C22_FetchDdoBoundedRetries ==
    /\ [](FetchDdoBounded /\ FetchDdoReturns)
    /\ (fetch.pc # "idle" ~> fetch.pc = "done")

=============================================================================
